---- MODULE Spec2Model ----
(***************************************************************************)
(* Closed-loop heater control of klippy: Heater (klippy/heater.py) with    *)
(* its control algorithms ControlBangBang, ControlPID, ControlFOPDT and    *)
(* the bump test ControlBumpTest run by HEATER_CALIBRATE                   *)
(* (klippy/extras/heater_calibrate.py).                                    *)
(*                                                                         *)
(* Units of the fixed-point translation of the source's floats:            *)
(*   time         quarter seconds     (MAX_HEAT_TIME 5.0 s  = 20)          *)
(*   temperature  1/20 degree Celsius (200 C = 4000; .35 = 7/20 is exact)  *)
(*   power        1/100 of full scale (max_power 1. = 100; 0.05 = 5)       *)
(* Two threads run the code: the sensor thread delivers samples to         *)
(* Heater.temperature_callback, the command thread runs set_temp and       *)
(* cmd_HEATER_CALIBRATE.  Heater.lock is a variable; a with-block that     *)
(* holds more than one statement is more than one step.                    *)
(*                                                                         *)
(* Spec is the program with a PWM driver that accepts every write and a    *)
(* sensor that reports every 2 s.  SpecRaise adds a driver that may refuse *)
(* a write (the call of heater.py:75 raises inside the callback) and the   *)
(* command get_temp.  SpecFast is Spec behind a sensor that reports every  *)
(* 0.5 s.  SpecLive is the program with a sensor that keeps reporting and  *)
(* threads that keep running (fairness), for the liveness property.        *)
(***************************************************************************)
EXTENDS Integers, Sequences, FiniteSets, TLC

\* ---------------------------------------------------------------- units
TicksPerSec == 4
TempScale == 20
PwmScale == 100
Deg(d) == d * TempScale

\* ------------------------------------------------------------ constants
\* heater.py:14  MAX_HEAT_TIME = 5.0 (seconds), here in ticks
MAX_HEAT_TIME == 20
\* heater.py:15  AMBIENT_TEMP = 25.
AMBIENT_TEMP == 500
\* heater.py:66  the 0.05 of the debounce test, in power units
PWM_DEBOUNCE == 5
\* heater.py:27,28  config min_temp / max_temp (10 C, 200 C)
min_temp == 200
max_temp == 4000
\* heater.py:32  config min_extrude_temp, default 170.
min_extrude_temp == 3400
\* heater.py:31  sensor.get_report_time_delta(), the period of the sensor's
\* reports: 2 s for a slow sensor, 0.5 s for a fast one
REPORT_TIME == 8
FAST_REPORT_TIME == 2
\* heater.py:128  config max_delta, default 2.0
max_delta == 40

\* --------------------------------------------------------------- bounds
\* the sensor delivers at most MaxReports report periods of samples
MaxReports == 27
\* a ControlPID or ControlFOPDT object is given at most MaxSamples samples
MaxSamples == 4

\* HEATER_CALIBRATE is issued within the first MaxCalibrateStart report periods
MaxCalibrateStart == 0
\* while HEATER_CALIBRATE is at a statement that does not wait, the sensor
\* thread gets in at most MaxLag samples
MaxLag == 1
\* the optimizer evaluates the cost function at most MaxEvals times
MaxEvals == 2
\* in the runs with a refusing driver the sensor delivers at most
\* MaxIdleReports report periods of samples while no command is running
MaxIdleReports == 4

\* the sets the inputs are drawn from
\* (HEATER_CALIBRATE is run on heaters configured with these algorithms)
CalibratedAlgos == {"bangbang"}
MaxPowers == {60}
Algos == {"bangbang", "pid", "fopdt"}
\* a sample arrives one report period after the last one
ReportSteps == {1}
Temps == {Deg(20), Deg(198), Deg(200), Deg(202)}
Degrees == {0, Deg(9), Deg(10), Deg(200), Deg(201)}
CalibrateTargets == {0, Deg(200), Deg(201)}
\* the samples and the set_temp targets of the runs with a refusing driver
RaiseTemps == {Deg(20), Deg(200)}
RaiseDegrees == {0, Deg(200), Deg(201)}
\* samples given to a ControlPID / ControlFOPDT object in the runs with a fair
\* sensor, and the inputs of those runs
MaxLiveSamples == 6
LiveTemps == {Deg(20), Deg(200)}
LiveDegrees == {0, Deg(200)}
\* the parameter sets the optimizer passes to the cost function: gain in C,
\* time_constant and delay in ticks
FitParams == [gain : {0, Deg(50)}, time_constant : {-4, 240}, delay : {0, 20}]

\* ---------------------------------------------------------------- state
VARIABLES
    max_power,       \* Heater.max_power
    pwm_delay,       \* Heater.pwm_delay
    lock,            \* Heater.lock: "free", "sensor" or "cmd"
    last_temp,       \* Heater.last_temp
    last_temp_time,  \* Heater.last_temp_time
    target_temp,     \* Heater.target_temp
    can_extrude,     \* Heater.can_extrude
    next_pwm_time,   \* Heater.next_pwm_time
    last_pwm_value,  \* Heater.last_pwm_value
    control,         \* Heater.control: which algorithm object is active
    mcu_pwm,         \* the PWM driver: its last set_pwm(time, value), if any
    call,            \* the Heater.set_pwm call of the latest algorithm callback,
                     \* and whether that callback raised
    bangbang,        \* the ControlBangBang object
    pid,             \* the ControlPID object
    fopdt,           \* the ControlFOPDT object
    calibrate,       \* the ControlBumpTest object of the running HEATER_CALIBRATE
    lag,             \* samples that overtook the running HEATER_CALIBRATE so far
    nsamples,        \* samples given to the ControlPID / ControlFOPDT object so far
    sensor_pc,       \* sensor thread: "idle" or "locked" (inside the with-block)
    cmd_pc,          \* command thread: the statement it is at
    cmd,             \* command thread: locals of the running command, and
                     \* initial_control, the algorithm active when it started
    cmd_result,      \* command thread: how the last command ended
    fit              \* command thread: the calls of least_squares_error made by
                     \* the running calc_fopdt

vars == <<max_power, pwm_delay, lock, last_temp, last_temp_time, target_temp, can_extrude,
          next_pwm_time, last_pwm_value, control, mcu_pwm, call, bangbang, pid,
          fopdt, calibrate, lag, nsamples, sensor_pc, cmd_pc, cmd, cmd_result,
          fit>>

Abs(x) == IF x < 0 THEN -x ELSE x
Max(a, b) == IF a >= b THEN a ELSE b
Min(a, b) == IF a <= b THEN a ELSE b

NoCall == [n |-> 0, value |-> 0, wrote |-> FALSE, raised |-> FALSE]
NoResult == [op |-> "none", arg |-> 0, raised |-> FALSE]
NoFit == [evals |-> 0, pauses |-> 0, result |-> "none"]
NoCmd == [op |-> "none", arg |-> 0, old_control |-> "none", busy |-> "unknown",
          initial_control |-> "none"]

\* ------------------------------------------------------- Heater.set_pwm
\* mutant: the value is not forced to 0 while the target is 0
set_pwm_value_unforced(value) == value

\* mutant: the value is forced to 0 only for a target below 0 ("<" for "<=")
set_pwm_value_below_zero(value) == IF target_temp < 0 THEN 0 ELSE value

\* heater.py:63-64
set_pwm_value(value) == IF target_temp <= 0 THEN 0 ELSE value

\* mutant: the debounce suppresses every small change, at any time
set_pwm_suppress_small_change(read_time, value) ==
    Abs(set_pwm_value(value) - last_pwm_value) < PWM_DEBOUNCE

\* mutant: the debounce forgets the read_time < next_pwm_time alternative
set_pwm_suppress_no_window(read_time, value) ==
    /\ last_pwm_value = 0
    /\ Abs(set_pwm_value(value) - last_pwm_value) < PWM_DEBOUNCE

\* mutant: the debounce tests "never written" instead of "last value is 0"
set_pwm_suppress_never_written(read_time, value) ==
    /\ (read_time < next_pwm_time \/ ~mcu_pwm.written)
    /\ Abs(set_pwm_value(value) - last_pwm_value) < PWM_DEBOUNCE

\* heater.py:65-66
set_pwm_suppress(read_time, value) ==
    /\ (read_time < next_pwm_time \/ last_pwm_value = 0)
    /\ Abs(set_pwm_value(value) - last_pwm_value) < PWM_DEBOUNCE

\* mutant: the next refresh is due a full MAX_HEAT_TIME after the write
set_pwm_next_time_full(read_time) == (read_time + pwm_delay) + MAX_HEAT_TIME

\* heater.py:69-70
set_pwm_next_time(read_time) ==
    (read_time + pwm_delay) + (3 * MAX_HEAT_TIME) \div 4

\* heater.py:62-76: the call's effect on the cache and the driver, and what
\* it returns (ret_time, ret_value)
set_pwm(read_time, value) ==
    IF set_pwm_suppress(read_time, value)
    THEN [wrote |-> FALSE, ret_time |-> 0, ret_value |-> last_pwm_value,
          next_pwm_time |-> next_pwm_time, last_pwm_value |-> last_pwm_value]
    ELSE [wrote |-> TRUE, ret_time |-> read_time + pwm_delay,
          ret_value |-> set_pwm_value(value),
          next_pwm_time |-> set_pwm_next_time(read_time),
          last_pwm_value |-> set_pwm_value(value)]

\* the state change of an algorithm callback whose Heater.set_pwm call is
\* set_pwm(read_time, value); ncalls is the number of set_pwm calls on the
\* path the callback takes
DoSetPwmCalls(read_time, value, ncalls) ==
    LET r == set_pwm(read_time, value) IN
    /\ next_pwm_time' = r.next_pwm_time
    /\ last_pwm_value' = r.last_pwm_value
    /\ mcu_pwm' = IF r.wrote
                  THEN [written |-> TRUE, time |-> r.ret_time, value |-> r.ret_value]
                  ELSE mcu_pwm
    /\ call' = [n |-> ncalls, value |-> value, wrote |-> r.wrote, raised |-> FALSE]

\* the state change of one algorithm callback that calls Heater.set_pwm once
DoSetPwm(read_time, value) == DoSetPwmCalls(read_time, value, 1)

\* ------------------------------------------------------ ControlBangBang
\* mutant: the hysteresis band is left out of the comparisons
bangbang_heating_no_band(temp) ==
    IF bangbang.heating /\ temp >= target_temp THEN FALSE
    ELSE IF ~bangbang.heating /\ temp <= target_temp THEN TRUE
    ELSE bangbang.heating

\* heater.py:131-134
bangbang_heating(temp) ==
    IF bangbang.heating /\ temp >= target_temp + max_delta THEN FALSE
    ELSE IF ~bangbang.heating /\ temp <= target_temp - max_delta THEN TRUE
    ELSE bangbang.heating

\* heater.py:130-138
bangbang_temperature_callback(read_time, temp) ==
    /\ bangbang' = [heating |-> bangbang_heating(temp)]
    /\ DoSetPwm(read_time, IF bangbang_heating(temp) THEN max_power ELSE 0)
    /\ UNCHANGED <<pid, fopdt, calibrate, target_temp>>

\* ----------------------------------------------------------- ControlPID
\* heater.py:153-156  config pid_Kp, pid_Ki, pid_Kd already divided by
\* PID_PARAM_BASE: power units per C, per C*s, per C/s; pid_deriv_time 2. s
pid_Kp == 2
pid_Ki == 4
pid_Kd == 1
min_deriv_time == 8

\* heater.py:147-148  PID_SETTLE_DELTA = 1. C; PID_SETTLE_SLOPE = .1 C/s is
\* half a temperature unit per tick, kept doubled
PID_SETTLE_DELTA == 20
PID_SETTLE_SLOPE == 1

\* heater.py:157-158  temp_integ_max = imax / Ki, imax defaulting to max_power
temp_integ_max == (max_power * TempScale * TicksPerSec) \div pid_Ki

\* heater.py:159-162
PidInit == [prev_temp |-> AMBIENT_TEMP, prev_temp_time |-> 0,
            prev_temp_deriv |-> 0, prev_temp_integ |-> 0]

\* heater.py:164-171 (quotients are rounded down to the fixed-point grid)
pid_temp_deriv(read_time, temp) ==
    LET time_diff == read_time - pid.prev_temp_time
        temp_diff == temp - pid.prev_temp
    IN IF time_diff >= min_deriv_time
       THEN temp_diff \div time_diff
       ELSE (pid.prev_temp_deriv * (min_deriv_time - time_diff) + temp_diff)
                \div min_deriv_time

\* heater.py:173-175
pid_temp_integ(read_time, temp) ==
    LET time_diff == read_time - pid.prev_temp_time
        temp_err == target_temp - temp
    IN Max(0, Min(temp_integ_max, pid.prev_temp_integ + temp_err * time_diff))

\* heater.py:177
pid_co(read_time, temp) ==
    (pid_Kp * (target_temp - temp)) \div TempScale
    + (pid_Ki * pid_temp_integ(read_time, temp)) \div (TempScale * TicksPerSec)
    - (pid_Kd * pid_temp_deriv(read_time, temp) * TicksPerSec) \div TempScale

\* mutant: the output is passed on without the clamp of heater.py:180
pid_bounded_co_unclamped(read_time, temp) == pid_co(read_time, temp)

\* heater.py:180
pid_bounded_co(read_time, temp) == Max(0, Min(max_power, pid_co(read_time, temp)))

\* mutant: the integral is stored on every sample (no anti-windup test)
pid_prev_temp_integ_windup(read_time, temp) == pid_temp_integ(read_time, temp)

\* heater.py:186-187: the integral is stored only if the output was not clamped
pid_prev_temp_integ(read_time, temp) ==
    IF pid_co(read_time, temp) = pid_bounded_co(read_time, temp)
    THEN pid_temp_integ(read_time, temp)
    ELSE pid.prev_temp_integ

\* heater.py:163-187
pid_temperature_callback(read_time, temp) ==
    /\ DoSetPwm(read_time, pid_bounded_co(read_time, temp))
    /\ pid' = [prev_temp |-> temp, prev_temp_time |-> read_time,
               prev_temp_deriv |-> pid_temp_deriv(read_time, temp),
               prev_temp_integ |-> pid_prev_temp_integ(read_time, temp)]
    /\ UNCHANGED <<bangbang, fopdt, calibrate, target_temp>>

\* --------------------------------------------------------- ControlFOPDT
\* heater.py:209-211  1/INV_AMBIENT_SMOOTH = 8 s, 1/INV_TEMP_SMOOTH = 2 s, in
\* ticks, and MIN_AMBIENT
AMBIENT_SMOOTH == 32
TEMP_SMOOTH == 8
MIN_AMBIENT == 0
\* heater.py:219-224  config gain (600 C at full power), time_constant (2 s)
\* and delay_time (2 s)
fopdt_gain == 12000
time_constant == 8
delay == 8
\* factors are kept in thousandths
FactorScale == 1000

\* math.exp(-time_diff / tc) in thousandths, by 1 / (1 + x + x*x/2): it is 1
\* at 0, falls towards 0 as time_diff grows and is positive everywhere
Exp(time_diff, tc) ==
    (FactorScale * 2 * tc * tc)
        \div (2 * tc * tc + 2 * time_diff * tc + time_diff * time_diff)

\* x * factor, factor in thousandths
Scaled(x, factor) == (x * factor) \div FactorScale

\* heater.py:226-241
FopdtInit == [first_set_temp |-> TRUE,
              last_pwm_time |-> 0, next_pwm_time |-> 0, last_model_time |-> 0,
              last_pwm |-> 0, next_pwm |-> 0,
              model_temp |-> 0, last_model_temp |-> 0, model_smooth_temp |-> 0,
              smooth_ambient |-> AMBIENT_TEMP, did_fault |-> FALSE, logged |-> 0,
              prev_temp |-> AMBIENT_TEMP, prev_temp_time |-> 0, temp_slope |-> 0]

\* heater.py:243-247, on the object state f
calc_model_temp(f, read_time) ==
    LET tc_factor == Exp(read_time - f.last_pwm_time, time_constant)
    IN Scaled(f.model_temp, tc_factor)
       + Scaled((fopdt_gain * f.last_pwm) \div PwmScale, FactorScale - tc_factor)

\* heater.py:280-293.  early: reactor.monotonic() is still within 5 time
\* constants of start_time
note_first_temp(f, early) ==
    LET delta == f.smooth_ambient - AMBIENT_TEMP
        f1 == [f EXCEPT !.first_set_temp = FALSE]
    IN IF ~early \/ delta <= 0 THEN f1
       ELSE [f1 EXCEPT !.model_temp = @ + delta,
                       !.model_smooth_temp = @ + delta,
                       !.smooth_ambient = @ - delta,
                       !.last_pwm_time = f.last_model_time]

\* heater.py:250-253 and 274-277: the pending power becomes the model's power
fopdt_take_next_pwm(f) ==
    [f EXCEPT !.model_temp = calc_model_temp(f, f.next_pwm_time),
              !.last_pwm = f.next_pwm,
              !.last_pwm_time = f.next_pwm_time]

\* heater.py:248-271; logged counts the calls of logging.error
note_temperature(f, read_time, temp) ==
    LET f1 == IF f.last_pwm # f.next_pwm /\ read_time > f.next_pwm_time
              THEN fopdt_take_next_pwm(f) ELSE f
        model == calc_model_temp(f1, read_time)
        time_diff == read_time - f1.last_model_time
        smooth == f1.model_smooth_temp
                  + Scaled(model - f1.model_smooth_temp,
                           FactorScale - Exp(time_diff, delay))
        ambient == temp - smooth
        smooth_amb == f1.smooth_ambient
                      + Scaled(ambient - f1.smooth_ambient,
                               FactorScale - Exp(time_diff, AMBIENT_SMOOTH))
        fault == smooth_amb < MIN_AMBIENT /\ ~f1.did_fault /\ temp <= target_temp
    IN [f1 EXCEPT !.last_model_temp = model,
                  !.last_model_time = read_time,
                  !.model_smooth_temp = smooth,
                  !.smooth_ambient = smooth_amb,
                  !.did_fault = IF fault THEN TRUE ELSE @,
                  !.logged = IF fault THEN @ + 1 ELSE @]

\* heater.py:300-304 (prev_temp_time is never assigned after __init__)
fopdt_slope(f, read_time, temp) ==
    LET time_diff == read_time - f.prev_temp_time
        temp_diff == temp - f.prev_temp
    IN [f EXCEPT !.prev_temp = temp,
                 !.temp_slope = @ + Scaled(temp_diff - @,
                                           FactorScale - Exp(time_diff, TEMP_SMOOTH))]

\* heater.py:306-309, Kp = .7 * time_constant / gain (heater.py:236)
fopdt_co(f) ==
    LET target == target_temp - f.smooth_ambient
        bias == (target * PwmScale) \div fopdt_gain
        temp_err == target - f.last_model_temp
    IN bias + (7 * time_constant * temp_err * PwmScale)
                  \div (10 * TicksPerSec * fopdt_gain)

\* mutant: a raised fault switches the heater off
fopdt_bounded_co_shutdown(f) ==
    IF f.did_fault THEN 0 ELSE Max(0, Min(max_power, fopdt_co(f)))

\* heater.py:309
fopdt_bounded_co(f) == Max(0, Min(max_power, fopdt_co(f)))

\* heater.py:272-279: ControlFOPDT.set_pwm, after Heater.set_pwm returned r
fopdt_set_pwm(f, r) ==
    LET f1 == IF f.last_pwm # f.next_pwm THEN fopdt_take_next_pwm(f) ELSE f
    IN [f1 EXCEPT !.next_pwm_time = r.ret_time, !.next_pwm = r.ret_value]

\* heater.py:296-304: the object when the new output is calculated
fopdt_noted(read_time, temp, early) ==
    LET f0 == IF target_temp # 0 /\ fopdt.first_set_temp
              THEN note_first_temp(fopdt, early) ELSE fopdt
    IN fopdt_slope(note_temperature(f0, read_time, temp), read_time, temp)

\* heater.py:295-310
fopdt_temperature_callback(read_time, temp, early) ==
    LET f1 == fopdt_noted(read_time, temp, early)
        bounded_co == fopdt_bounded_co(f1)
    IN /\ DoSetPwm(read_time, bounded_co)
       /\ fopdt' = fopdt_set_pwm(f1, set_pwm(read_time, bounded_co))
       /\ UNCHANGED <<bangbang, pid, calibrate, target_temp>>

\* ------------------------------------------------------ ControlBumpTest
\* heater_calibrate.py:68  samples taken before the heater is switched on
IDLE_SAMPLES == 20

\* heater_calibrate.py:50-57.  temp_samples is kept as its length, its first
\* and its last entry: the callback reads no other part of it
BumpInit == [state |-> 0, done_temperature |-> 0, last_pwm |-> 0,
             pwm_samples |-> <<>>,
             temp_samples |-> [len |-> 0, first |-> <<0, 0>>, last |-> <<0, 0>>]]

\* heater_calibrate.py:65
bump_append_temp(read_time, temp) ==
    [len |-> calibrate.temp_samples.len + 1,
     first |-> IF calibrate.temp_samples.len = 0 THEN <<read_time, temp>>
               ELSE calibrate.temp_samples.first,
     last |-> <<read_time, temp>>]

\* heater_calibrate.py:60-62
bump_pwm_samples(read_time, value) ==
    IF value # calibrate.last_pwm
    THEN Append(calibrate.pwm_samples, <<read_time + pwm_delay, value>>)
    ELSE calibrate.pwm_samples

\* heater_calibrate.py:76-78
bump_done_temperature(temps) ==
    LET start_temp == temps.first[2]
    IN start_temp + ((target_temp - start_temp) * 7) \div 20

\* mutant: "if" in place of "elif" lets Idle fall through into the RampUp test
bump_next_state_fallthrough(temp, temps) ==
    CASE calibrate.state = 0 ->
           IF temps.len >= IDLE_SAMPLES
           THEN (IF temp < target_temp THEN 1 ELSE 2) ELSE 0
      [] calibrate.state = 1 -> IF temp < target_temp THEN 1 ELSE 2
      [] calibrate.state = 2 -> IF temp <= calibrate.done_temperature THEN 3 ELSE 2
      [] OTHER -> calibrate.state

\* mutant: Idle is left one sample late (">" for ">=" at line 68)
bump_next_state_late(temp, temps) ==
    CASE calibrate.state = 0 -> IF temps.len > IDLE_SAMPLES THEN 1 ELSE 0
      [] calibrate.state = 1 -> IF temp < target_temp THEN 1 ELSE 2
      [] calibrate.state = 2 -> IF temp <= calibrate.done_temperature THEN 3 ELSE 2
      [] OTHER -> calibrate.state

\* heater_calibrate.py:66-84: the state the callback leaves the session in;
\* temps is temp_samples with the sample appended
bump_next_state(temp, temps) ==
    CASE calibrate.state = 0 -> IF temps.len >= IDLE_SAMPLES THEN 1 ELSE 0
      [] calibrate.state = 1 -> IF temp < target_temp THEN 1 ELSE 2
      [] calibrate.state = 2 -> IF temp <= calibrate.done_temperature THEN 3 ELSE 2
      [] OTHER -> calibrate.state

\* heater_calibrate.py:67, 73, 75, 82: the power the callback asks for
bump_value(temp) ==
    IF calibrate.state = 1 /\ temp < target_temp THEN max_power ELSE 0

\* mutant: RampUp without the "return" of line 74 goes on to the set_pwm of
\* line 75
bump_set_pwm_calls_no_return(temp) ==
    CASE calibrate.state = 0 -> 1
      [] calibrate.state = 1 -> IF temp < target_temp THEN 2 ELSE 1
      [] calibrate.state = 2 -> 1
      [] OTHER -> 0

\* heater_calibrate.py:66-84: how many times the path the callback takes
\* calls self.set_pwm (lines 67; 73, which returns, or 75; 82; none in Done),
\* each of which calls Heater.set_pwm once (line 63)
bump_set_pwm_calls(temp) ==
    CASE calibrate.state = 0 -> 1
      [] calibrate.state = 1 -> IF temp < target_temp THEN 1 ELSE 1
      [] calibrate.state = 2 -> 1
      [] OTHER -> 0

\* heater_calibrate.py:64-84
bump_temperature_callback(read_time, temp) ==
    LET temps == bump_append_temp(read_time, temp)
        value == bump_value(temp)
        next_state == bump_next_state(temp, temps)
        leaves_ramp == calibrate.state = 1 /\ ~(temp < target_temp)
    IN IF bump_set_pwm_calls(temp) > 0
       THEN /\ DoSetPwmCalls(read_time, value, bump_set_pwm_calls(temp))
            /\ calibrate' = [calibrate EXCEPT
                   !.temp_samples = temps,
                   !.pwm_samples = bump_pwm_samples(read_time, value),
                   !.last_pwm = value,
                   !.done_temperature =
                       IF leaves_ramp THEN bump_done_temperature(temps) ELSE @,
                   !.state = next_state]
            /\ target_temp' = IF leaves_ramp THEN bump_done_temperature(temps)
                              ELSE target_temp
       ELSE /\ calibrate' = [calibrate EXCEPT !.temp_samples = temps,
                                              !.state = next_state]
            /\ call' = NoCall
            /\ UNCHANGED <<target_temp, next_pwm_time, last_pwm_value, mcu_pwm>>

\* mutant: busy is given up one state early
bump_check_busy_early == calibrate.state < 2

\* heater_calibrate.py:85-88
bump_check_busy == calibrate.state < 3

\* the statements of cmd_HEATER_CALIBRATE other than the wait in bg_temp
NoWaitPcs == {"hc_set_control", "hc_set_temp", "hc_restore_err", "hc_raise",
              "hc_restore", "hc_calc_fopdt", "hc_fit", "lse_pause"}

\* --------------------------------------------- Heater.temperature_callback
\* heater.py:78-81: the sensor thread takes the lock and stores the sample
temperature_callback_enter(read_time, temp) ==
    /\ sensor_pc = "idle"
    /\ lock = "free"
    /\ lock' = "sensor"
    /\ sensor_pc' = "locked"
    /\ last_temp' = temp
    /\ last_temp_time' = read_time
    /\ can_extrude' = (temp >= min_extrude_temp)
    /\ lag' = IF cmd_pc \in NoWaitPcs THEN lag + 1 ELSE lag
    /\ UNCHANGED <<fit, max_power, pwm_delay, target_temp, next_pwm_time, last_pwm_value, control,
                   mcu_pwm, call, bangbang, pid, fopdt, calibrate, nsamples, cmd_pc, cmd,
                   cmd_result>>

\* heater.py:82: the active algorithm's callback, then the lock is released
temperature_callback_control ==
    /\ sensor_pc = "locked"
    /\ CASE control = "bangbang" ->
              bangbang_temperature_callback(last_temp_time, last_temp)
         [] control = "pid" ->
              pid_temperature_callback(last_temp_time, last_temp)
         [] control = "bump" ->
              /\ bump_temperature_callback(last_temp_time, last_temp)
              /\ UNCHANGED <<bangbang, pid, fopdt>>
         [] control = "fopdt" ->
              \E early \in BOOLEAN :
                  fopdt_temperature_callback(last_temp_time, last_temp, early)
    /\ nsamples' = IF control \in {"pid", "fopdt"} THEN nsamples + 1 ELSE nsamples
    /\ lock' = "free"
    /\ sensor_pc' = "idle"
    /\ UNCHANGED <<fit, lag, max_power, pwm_delay, last_temp, last_temp_time, can_extrude, control,
                   cmd_pc, cmd, cmd_result>>

\* mutant: the exception leaves the callback with the lock still held (an
\* acquire / release pair in place of the with-statement)
with_lock_raise_exit_held == UNCHANGED lock

\* heater.py:78: an exception leaving the with-block releases the lock
with_lock_raise_exit == lock' = "free"

\* heater.py:75 raises: the PWM driver refuses the write that the active
\* algorithm's callback asked for.  What the callback assigned before its
\* Heater.set_pwm call stays (heater.py:132-134; 296-304;
\* heater_calibrate.py:65, 60-62), so do the cache fields of heater.py:70-71;
\* the statements after the call are not run (heater.py:183-187; 274-279;
\* heater_calibrate.py:68-70, 76-80, 83-84).  The exception leaves the
\* with-block of heater.py:78, which releases the lock
mcu_set_pwm_raises ==
    /\ sensor_pc = "locked"
    /\ control = "bump" => bump_set_pwm_calls(last_temp) > 0
    /\ \E early \in BOOLEAN :
           LET noted == fopdt_noted(last_temp_time, last_temp, early)
               value ==
                   CASE control = "bangbang" ->
                          IF bangbang_heating(last_temp) THEN max_power ELSE 0
                     [] control = "pid" -> pid_bounded_co(last_temp_time, last_temp)
                     [] control = "fopdt" -> fopdt_bounded_co(noted)
                     [] control = "bump" -> bump_value(last_temp)
               r == set_pwm(last_temp_time, value)
           IN /\ r.wrote
              /\ next_pwm_time' = r.next_pwm_time
              /\ last_pwm_value' = r.last_pwm_value
              /\ call' = [n |-> 1, value |-> value, wrote |-> FALSE, raised |-> TRUE]
              /\ bangbang' = IF control = "bangbang"
                             THEN [heating |-> bangbang_heating(last_temp)]
                             ELSE bangbang
              /\ fopdt' = IF control = "fopdt" THEN noted ELSE fopdt
              /\ calibrate' =
                     IF control = "bump"
                     THEN [calibrate EXCEPT
                              !.temp_samples = bump_append_temp(last_temp_time, last_temp),
                              !.pwm_samples = bump_pwm_samples(last_temp_time, value),
                              !.last_pwm = value]
                     ELSE calibrate
    /\ nsamples' = IF control \in {"pid", "fopdt"} THEN nsamples + 1 ELSE nsamples
    /\ with_lock_raise_exit
    /\ sensor_pc' = "idle"
    /\ UNCHANGED <<fit, lag, max_power, pwm_delay, last_temp, last_temp_time, target_temp,
                   can_extrude, control, mcu_pwm, pid, cmd_pc, cmd, cmd_result>>

\* the sensor reports a sample with a temperature of temps: read_time
\* advances by report periods
SampleOf(temps) ==
    \E dt \in ReportSteps, temp \in temps :
        /\ last_temp_time + dt * pwm_delay <= MaxReports * pwm_delay
        /\ control \in {"pid", "fopdt"} => nsamples < MaxSamples
        /\ cmd_pc \in NoWaitPcs => lag < MaxLag
        /\ temperature_callback_enter(last_temp_time + dt * pwm_delay, temp)

Sample == SampleOf(Temps)

\* the samples of the runs with a refusing driver
SampleRaise ==
    /\ cmd_pc = "idle" => last_temp_time < MaxIdleReports * pwm_delay
    /\ SampleOf(RaiseTemps)

\* the samples of the runs with a fair sensor
SampleLive ==
    \E temp \in LiveTemps :
        /\ last_temp_time + pwm_delay <= MaxReports * pwm_delay
        /\ control \in {"pid", "fopdt"} => nsamples < MaxLiveSamples
        /\ cmd_pc \in NoWaitPcs => lag < MaxLag
        /\ temperature_callback_enter(last_temp_time + pwm_delay, temp)

\* ------------------------------------------------------- Heater.set_temp
\* mutant: the range test without the exemption of degrees = 0
set_temp_out_of_range_zero(degrees) ==
    degrees < min_temp \/ degrees > max_temp

\* heater.py:86
set_temp_out_of_range(degrees) ==
    degrees # 0 /\ (degrees < min_temp \/ degrees > max_temp)

\* heater.py:85-90, called as a command of its own
set_temp(degrees) ==
    /\ cmd_pc = "idle"
    /\ IF set_temp_out_of_range(degrees)
       THEN /\ cmd_result' = [op |-> "set_temp", arg |-> degrees, raised |-> TRUE]
            /\ UNCHANGED target_temp
       ELSE /\ lock = "free"
            /\ target_temp' = degrees
            /\ cmd_result' = [op |-> "set_temp", arg |-> degrees, raised |-> FALSE]
    /\ UNCHANGED <<fit, max_power, pwm_delay, lock, last_temp, last_temp_time, can_extrude,
                   next_pwm_time, last_pwm_value, control, mcu_pwm, call, bangbang,
                   pid, fopdt, calibrate, lag, nsamples, sensor_pc, cmd_pc, cmd>>

\* ------------------------------------------------------- Heater.get_temp
\* the print times get_temp compares the last sample's time with
PrintTimes == {0, MaxReports * pwm_delay}

\* heater.py:91-96, called as a command of its own; print_time is the MCU's
\* estimated print time less 5 s.  Both returns leave the with-block
get_temp(print_time) ==
    /\ cmd_pc = "idle"
    /\ lock = "free"
    /\ cmd_result' = [op |-> "get_temp",
                      arg |-> IF last_temp_time < print_time THEN 0 ELSE last_temp,
                      raised |-> FALSE]
    /\ UNCHANGED <<fit, max_power, pwm_delay, lock, last_temp, last_temp_time, target_temp,
                   can_extrude, next_pwm_time, last_pwm_value, control, mcu_pwm,
                   call, bangbang, pid, fopdt, calibrate, lag, nsamples, sensor_pc,
                   cmd_pc, cmd>>

\* ---------------------------------------------------- Heater.set_control
\* the statements of cmd_HEATER_CALIBRATE that call heater.set_control
\* (heater_calibrate.py:28, 32, 35) and the statement each returns to
SetControlSites == {"hc_set_control", "hc_restore_err", "hc_restore"}
set_control_return ==
    CASE cmd_pc = "hc_set_control" -> "hc_set_temp"
      [] cmd_pc = "hc_restore_err" -> "hc_raise"
      [] cmd_pc = "hc_restore" -> "hc_calc_fopdt"

\* its argument: the new ControlBumpTest at line 28, old_control at 32 and 35
set_control_arg == IF cmd_pc = "hc_set_control" THEN "bump" ELSE cmd.old_control

\* mutant: the swap is done without the lock (no "with self.lock")
set_control_swap_unlocked ==
    /\ cmd_pc \in SetControlSites
    /\ lock # "cmd"
    /\ lock' = "cmd"
    /\ control' = set_control_arg
    /\ cmd' = IF cmd_pc = "hc_set_control"
              THEN [cmd EXCEPT !.old_control = control] ELSE cmd
    /\ UNCHANGED <<fit, max_power, pwm_delay, last_temp, last_temp_time, target_temp, can_extrude,
                   next_pwm_time, last_pwm_value, mcu_pwm, call, bangbang, pid,
                   fopdt, calibrate, lag, nsamples, sensor_pc, cmd_pc, cmd_result>>

\* heater.py:101-103: take the lock, swap the algorithm.  The value returned
\* at line 105 is kept by the caller only at heater_calibrate.py:28
set_control_swap ==
    /\ cmd_pc \in SetControlSites
    /\ lock = "free"
    /\ lock' = "cmd"
    /\ control' = set_control_arg
    /\ cmd' = IF cmd_pc = "hc_set_control"
              THEN [cmd EXCEPT !.old_control = control] ELSE cmd
    /\ UNCHANGED <<fit, max_power, pwm_delay, last_temp, last_temp_time, target_temp, can_extrude,
                   next_pwm_time, last_pwm_value, mcu_pwm, call, bangbang, pid,
                   fopdt, calibrate, lag, nsamples, sensor_pc, cmd_pc, cmd_result>>

\* mutant: set_control leaves the target as it was (no line 104)
set_control_reset_keeps_target ==
    /\ cmd_pc \in SetControlSites
    /\ lock = "cmd"
    /\ lock' = "free"
    /\ cmd_pc' = set_control_return
    /\ UNCHANGED <<fit, max_power, pwm_delay, last_temp, last_temp_time, target_temp,
                   can_extrude, next_pwm_time, last_pwm_value, control, mcu_pwm, call,
                   bangbang, pid, fopdt, calibrate, lag, nsamples, sensor_pc, cmd,
                   cmd_result>>

\* heater.py:104-105: reset the target, release the lock, return
set_control_reset ==
    /\ cmd_pc \in SetControlSites
    /\ lock = "cmd"
    /\ target_temp' = 0
    /\ lock' = "free"
    /\ cmd_pc' = set_control_return
    /\ UNCHANGED <<fit, max_power, pwm_delay, last_temp, last_temp_time, can_extrude,
                   next_pwm_time, last_pwm_value, control, mcu_pwm, call, bangbang,
                   pid, fopdt, calibrate, lag, nsamples, sensor_pc, cmd, cmd_result>>

\* ------------------------------------ HeaterCalibrate.cmd_HEATER_CALIBRATE
\* heater_calibrate.py:17-27: the command starts and builds its ControlBumpTest
cmd_HEATER_CALIBRATE(target) ==
    /\ cmd_pc = "idle"
    /\ control \in CalibratedAlgos
    /\ last_temp_time <= MaxCalibrateStart * pwm_delay
    /\ cmd_pc' = "hc_set_control"
    /\ cmd' = [op |-> "calibrate", arg |-> target, old_control |-> "none",
               busy |-> "unknown", initial_control |-> control]
    /\ calibrate' = BumpInit
    /\ cmd_result' = NoResult
    /\ lag' = 0
    /\ UNCHANGED <<fit, max_power, pwm_delay, lock, last_temp, last_temp_time, target_temp,
                   can_extrude, next_pwm_time, last_pwm_value, control, mcu_pwm,
                   call, bangbang, pid, fopdt, nsamples, sensor_pc>>

\* mutant: the except branch raises without heater.set_control(old_control)
hc_set_temp_no_restore ==
    /\ cmd_pc = "hc_set_temp"
    /\ IF set_temp_out_of_range(cmd.arg)
       THEN /\ cmd_pc' = "hc_raise"
            /\ UNCHANGED target_temp
       ELSE /\ lock = "free"
            /\ target_temp' = cmd.arg
            /\ cmd_pc' = "hc_bg_temp"
    /\ UNCHANGED <<fit, max_power, pwm_delay, lock, last_temp, last_temp_time, can_extrude,
                   next_pwm_time, last_pwm_value, control, mcu_pwm, call, bangbang,
                   pid, fopdt, calibrate, lag, nsamples, sensor_pc, cmd, cmd_result>>

\* heater_calibrate.py:29-31: heater.set_temp(print_time, target)
hc_set_temp ==
    /\ cmd_pc = "hc_set_temp"
    /\ IF set_temp_out_of_range(cmd.arg)
       THEN /\ cmd_pc' = "hc_restore_err"
            /\ UNCHANGED target_temp
       ELSE /\ lock = "free"
            /\ target_temp' = cmd.arg
            /\ cmd_pc' = "hc_bg_temp"
    /\ UNCHANGED <<fit, max_power, pwm_delay, lock, last_temp, last_temp_time, can_extrude,
                   next_pwm_time, last_pwm_value, control, mcu_pwm, call, bangbang,
                   pid, fopdt, calibrate, lag, nsamples, sensor_pc, cmd, cmd_result>>

\* heater_calibrate.py:33: the error reaches the command layer
hc_raise ==
    /\ cmd_pc = "hc_raise"
    /\ cmd_pc' = "idle"
    /\ cmd_result' = [op |-> "calibrate", arg |-> cmd.arg, raised |-> TRUE]
    /\ cmd' = NoCmd
    /\ calibrate' = BumpInit
    /\ UNCHANGED <<fit, max_power, pwm_delay, lock, last_temp, last_temp_time, target_temp,
                   can_extrude, next_pwm_time, last_pwm_value, control, mcu_pwm,
                   call, bangbang, pid, fopdt, lag, nsamples, sensor_pc>>

\* heater.py:97-99: Heater.check_busy asks the active algorithm under the lock
check_busy ==
    CASE control = "bump" -> bump_check_busy
      [] control = "bangbang" -> last_temp < target_temp - max_delta
      [] control = "pid" ->
           \/ Abs(target_temp - last_temp) > PID_SETTLE_DELTA
           \/ 2 * Abs(pid.prev_temp_deriv) > PID_SETTLE_SLOPE
      [] control = "fopdt" ->
           \/ Abs(target_temp - last_temp) > PID_SETTLE_DELTA
           \/ 2 * Abs(fopdt.temp_slope) > PID_SETTLE_SLOPE

\* heater_calibrate.py:34: gcode.bg_temp polls heater.check_busy until it
\* returns False
hc_bg_temp ==
    /\ cmd_pc = "hc_bg_temp"
    /\ lock = "free"
    /\ cmd' = [cmd EXCEPT !.busy = IF check_busy THEN "busy" ELSE "ready"]
    /\ cmd_pc' = IF check_busy THEN "hc_bg_temp" ELSE "hc_restore"
    /\ UNCHANGED <<fit, max_power, pwm_delay, lock, last_temp, last_temp_time, target_temp,
                   can_extrude, next_pwm_time, last_pwm_value, control, mcu_pwm,
                   call, bangbang, pid, fopdt, calibrate, lag, nsamples, sensor_pc, cmd_result>>

\* heater_calibrate.py:38, 127-139: calc_fopdt reads pwm_samples[0] (an
\* IndexError if no power change was recorded), takes the mean of the samples
\* before heater_on_time and the first guesses, and enters the optimizer
hc_calc_fopdt ==
    /\ cmd_pc = "hc_calc_fopdt"
    /\ IF Len(calibrate.pwm_samples) = 0
       THEN /\ cmd_pc' = "idle"
            /\ cmd_result' = [op |-> "calibrate", arg |-> cmd.arg, raised |-> TRUE]
            /\ cmd' = NoCmd
            /\ calibrate' = BumpInit
       ELSE /\ cmd_pc' = "hc_fit"
            /\ UNCHANGED <<cmd_result, cmd, calibrate>>
    /\ fit' = NoFit
    /\ UNCHANGED <<max_power, pwm_delay, lock, last_temp, last_temp_time, target_temp,
                   can_extrude, next_pwm_time, last_pwm_value, control, mcu_pwm,
                   call, bangbang, pid, fopdt, lag, nsamples, sensor_pc>>

\* heater_calibrate.py:119
least_squares_error_rejects(params) ==
    params.gain <= 0 \/ params.time_constant <= 0 \/ params.delay <= 0

\* heater_calibrate.py:115-124: mathutil.coordinate_descent (line 141) calls
\* the cost function with a parameter set.  A rejected set returns the
\* sentinel at line 120; otherwise model_smoothed_fopdt reads pwm_samples[0]
\* and [1] (an IndexError with fewer than two entries), the squared errors
\* are summed and the call reaches reactor.pause at line 125
least_squares_error(params) ==
    /\ cmd_pc = "hc_fit"
    /\ fit.evals < MaxEvals
    /\ IF least_squares_error_rejects(params)
       THEN /\ fit' = [evals |-> fit.evals + 1, pauses |-> 0, result |-> "sentinel"]
            /\ UNCHANGED <<cmd_pc, cmd, cmd_result, calibrate>>
       ELSE IF Len(calibrate.pwm_samples) < 2
       THEN /\ fit' = NoFit
            /\ cmd_pc' = "idle"
            /\ cmd_result' = [op |-> "calibrate", arg |-> cmd.arg, raised |-> TRUE]
            /\ cmd' = NoCmd
            /\ calibrate' = BumpInit
       ELSE /\ fit' = [evals |-> fit.evals + 1, pauses |-> 0, result |-> "none"]
            /\ cmd_pc' = "lse_pause"
            /\ UNCHANGED <<cmd, cmd_result, calibrate>>
    /\ UNCHANGED <<max_power, pwm_delay, lock, last_temp, last_temp_time, target_temp,
                   can_extrude, next_pwm_time, last_pwm_value, control, mcu_pwm,
                   call, bangbang, pid, fopdt, lag, nsamples, sensor_pc>>

\* heater_calibrate.py:125-126: reactor.pause(reactor.NOW), then return err
reactor_pause ==
    /\ cmd_pc = "lse_pause"
    /\ fit' = [fit EXCEPT !.pauses = @ + 1, !.result = "err"]
    /\ cmd_pc' = "hc_fit"
    /\ UNCHANGED <<max_power, pwm_delay, lock, last_temp, last_temp_time, target_temp,
                   can_extrude, next_pwm_time, last_pwm_value, control, mcu_pwm,
                   call, bangbang, pid, fopdt, calibrate, lag, nsamples, sensor_pc,
                   cmd, cmd_result>>

\* heater_calibrate.py:39-43, 143-149: the optimizer returns, the fit is
\* reported and the session is dropped
hc_respond_info ==
    /\ cmd_pc = "hc_fit"
    /\ cmd_pc' = "idle"
    /\ cmd_result' = [op |-> "calibrate", arg |-> cmd.arg, raised |-> FALSE]
    /\ cmd' = NoCmd
    /\ calibrate' = BumpInit
    /\ fit' = NoFit
    /\ UNCHANGED <<max_power, pwm_delay, lock, last_temp, last_temp_time, target_temp,
                   can_extrude, next_pwm_time, last_pwm_value, control, mcu_pwm,
                   call, bangbang, pid, fopdt, lag, nsamples, sensor_pc>>

\* ------------------------------------------------------------------ spec
\* heater.py:23-57, with a sensor whose report period is report_time
InitOf(report_time) ==
    /\ max_power \in MaxPowers
    /\ pwm_delay = report_time
    /\ lock = "free"
    /\ last_temp = 0
    /\ last_temp_time = 0
    /\ target_temp = 0
    /\ can_extrude = FALSE
    /\ next_pwm_time = 0
    /\ last_pwm_value = 0
    /\ control \in Algos
    /\ mcu_pwm = [written |-> FALSE, time |-> 0, value |-> 0]
    /\ call = NoCall
    /\ bangbang = [heating |-> FALSE]
    /\ pid = PidInit
    /\ fopdt = FopdtInit
    /\ calibrate = BumpInit
    /\ lag = 0
    /\ nsamples = 0
    /\ sensor_pc = "idle"
    /\ cmd_pc = "idle"
    /\ cmd = NoCmd
    /\ cmd_result = NoResult
    /\ fit = NoFit

Init == InitOf(REPORT_TIME)

\* the same heater behind a fast sensor
InitFast == InitOf(FAST_REPORT_TIME)

Next ==
    \/ Sample
    \/ temperature_callback_control
    \/ \E degrees \in Degrees : set_temp(degrees)
    \/ \E target \in CalibrateTargets : cmd_HEATER_CALIBRATE(target)
    \/ set_control_swap
    \/ set_control_reset
    \/ hc_set_temp
    \/ hc_raise
    \/ hc_bg_temp
    \/ hc_calc_fopdt
    \/ \E params \in FitParams : least_squares_error(params)
    \/ reactor_pause
    \/ hc_respond_info

Spec == Init /\ [][Next]_vars

\* the same program with a PWM driver that may refuse a write, and with
\* get_temp among the commands
NextRaise ==
    \/ SampleRaise
    \/ temperature_callback_control
    \/ mcu_set_pwm_raises
    \/ \E degrees \in RaiseDegrees : set_temp(degrees)
    \/ \E print_time \in PrintTimes : get_temp(print_time)
    \/ \E target \in CalibrateTargets : cmd_HEATER_CALIBRATE(target)
    \/ set_control_swap
    \/ set_control_reset
    \/ hc_set_temp
    \/ hc_raise
    \/ hc_bg_temp
    \/ hc_calc_fopdt
    \/ \E params \in FitParams : least_squares_error(params)
    \/ reactor_pause
    \/ hc_respond_info

SpecRaise == Init /\ [][NextRaise]_vars

SpecFast == InitFast /\ [][Next]_vars

\* the program with a sensor that keeps reporting: a sample is delivered if
\* the lock is free again and again (heater.py:78; strong fairness: commands
\* that follow one another without a pause do not keep the sensor thread
\* from the lock), the callback
\* it entered returns (heater.py:79-82: the only steps that take sensor_pc
\* from "locked" to "idle", possible whenever it is "locked"), and the
\* straight-line statements of cmd_HEATER_CALIBRATE and of Heater.set_control
\* run to their end
NextLive ==
    \/ SampleLive
    \/ temperature_callback_control
    \/ \E degrees \in LiveDegrees : set_temp(degrees)
    \/ \E target \in CalibrateTargets : cmd_HEATER_CALIBRATE(target)
    \/ set_control_swap
    \/ set_control_reset
    \/ hc_set_temp
    \/ hc_raise
    \/ hc_bg_temp
    \/ hc_calc_fopdt
    \/ \E params \in FitParams : least_squares_error(params)
    \/ reactor_pause
    \/ hc_respond_info

LiveCmdStep ==
    \/ set_control_swap
    \/ set_control_reset
    \/ hc_set_temp
    \/ hc_raise
    \/ hc_bg_temp
    \/ hc_calc_fopdt
    \/ reactor_pause
    \/ hc_respond_info

SpecLive ==
    /\ Init
    /\ [][NextLive]_vars
    /\ SF_vars(SampleLive)
    /\ WF_sensor_pc(sensor_pc = "locked" /\ sensor_pc' = "idle")
    /\ WF_vars(LiveCmdStep)

\* ---------------------------------------------------------------- claims
\* a step in which the active algorithm's temperature_callback runs
CallbackStep == sensor_pc = "locked" /\ sensor_pc' = "idle"
\* the value Heater.set_pwm works with in that step, as the claims define it
\* ("effective value"): the requested value, or 0 while target_temp <= 0
Effective == IF target_temp <= 0 THEN 0 ELSE call'.value
\* a step of the command Heater.set_temp(print_time, degrees)
SetTempStep(degrees) ==
    /\ cmd_pc = "idle" /\ cmd_pc' = "idle"
    /\ cmd_result'.op = "set_temp" /\ cmd_result'.arg = degrees
    /\ (cmd_result' # cmd_result \/ target_temp' # target_temp)

\* C1: every value passed to the PWM driver lies in 0 .. max_power, whichever
\* algorithm is active and whatever set_temp / set_control did in between.
C1_PwmWithinMaxPower ==
    mcu_pwm.written => (0 <= mcu_pwm.value /\ mcu_pwm.value <= max_power)

\* C1 witness: ControlPID has written the clamped value max_power.
C1_Witness ==
    /\ control = "pid" /\ sensor_pc = "idle" /\ call.wrote
    /\ mcu_pwm.written /\ mcu_pwm.value = max_power

\* C2 as stated: in every reachable state target_temp <= 0 implies that the last
\* value written to the driver is 0.
C2_Original == target_temp <= 0 => last_pwm_value = 0

\* C2 amended: a temperature_callback that calls set_pwm while target_temp <= 0
\* leaves last_pwm_value at 0, unless the cached value is below 0.05 and
\* read_time is before next_pwm_time, when the cache is left as it is; set_temp
\* and set_control do not touch last_pwm_value.
C2_OffAfterCallback ==
    [][/\ (CallbackStep /\ call'.n = 1 /\ target_temp <= 0) =>
             \/ last_pwm_value' = 0
             \/ /\ last_pwm_value' = last_pwm_value
                /\ Abs(last_pwm_value) < PWM_DEBOUNCE
                /\ last_temp_time < next_pwm_time
       /\ ~CallbackStep => last_pwm_value' = last_pwm_value]_vars

\* C2 witness: a callback under target 0 has switched a heating heater off.
C2_Witness ==
    /\ sensor_pc = "idle" /\ call.n = 1 /\ call.wrote /\ call.value > 0
    /\ target_temp = 0 /\ last_pwm_value = 0 /\ mcu_pwm.value = 0

\* C3: set_temp raises exactly when degrees # 0 and degrees is outside
\* min_temp .. max_temp, and then changes no Heater field; otherwise it
\* succeeds and target_temp = degrees afterwards.
C3_SetTempRange ==
    [][\A degrees \in Degrees :
          SetTempStep(degrees) =>
              /\ cmd_result'.raised <=>
                     (degrees # 0 /\ (degrees < min_temp \/ degrees > max_temp))
              /\ cmd_result'.raised => target_temp' = target_temp
              /\ ~cmd_result'.raised => target_temp' = degrees
              /\ UNCHANGED <<last_temp, last_temp_time, can_extrude, next_pwm_time,
                             last_pwm_value, control, lock, max_power>>]_vars

\* C3 witness: set_temp(0) has succeeded on a heater whose min_temp is above 0
\* and replaced an earlier target.
C3_Witness ==
    /\ cmd_result = [op |-> "set_temp", arg |-> 0, raised |-> FALSE]
    /\ target_temp = 0 /\ min_temp > 0 /\ last_pwm_value > 0

\* C4: set_control is one step for the sensor thread: it makes the new
\* algorithm active, sets target_temp to 0 and returns the algorithm that was
\* active before; no temperature_callback runs the new algorithm against the
\* target of the previous one.
C4_SetControlAtomic ==
    /\ lock = "cmd" => sensor_pc = "idle"
    /\ (sensor_pc = "locked" /\ cmd_pc \in {"hc_set_control", "hc_set_temp"}
            /\ control = "bump" /\ calibrate.state < 2) => target_temp = 0
    /\ (sensor_pc = "locked" /\ control # "bump"
            /\ cmd_pc \in {"hc_restore_err", "hc_raise", "hc_restore", "hc_calc_fopdt"})
           => target_temp = 0
    /\ cmd_pc = "hc_set_temp" =>
           (control = "bump" /\ cmd.old_control = cmd.initial_control)

\* C4 witness: inside set_control the new algorithm is in place while the
\* previous algorithm's target still stands, and the lock is held.
C4_Witness ==
    /\ lock = "cmd" /\ cmd_pc = "hc_set_control"
    /\ control = "bump" /\ target_temp > 0

\* C5: the session state stays in 0 .. 3; a callback leaves it as it is or
\* raises it by exactly one, and no other step changes it (the command only
\* replaces the whole session by a fresh one).
C5_StateMonotone ==
    [][/\ calibrate.state \in 0 .. 3
       /\ calibrate'.state \in 0 .. 3
       /\ CallbackStep =>
              calibrate'.state \in {calibrate.state, calibrate.state + 1}
       /\ ~CallbackStep =>
              (calibrate'.state = calibrate.state \/ calibrate' = BumpInit)]_vars

\* C5 witness: a session has gone through to Done.
C5_Witness == calibrate.state = 3 /\ Len(calibrate.pwm_samples) = 2

\* C6: check_busy is True exactly when state < 3, and Done is terminal: a
\* callback in state 3 keeps the state and makes no set_pwm call.
C6_DoneTerminal ==
    [][/\ (CallbackStep /\ control = "bump" /\ calibrate.state = 3) =>
              /\ calibrate'.state = 3
              /\ call'.n = 0
              /\ UNCHANGED <<mcu_pwm, last_pwm_value, next_pwm_time, target_temp>>
       /\ (cmd_pc = "hc_bg_temp" /\ <<cmd, cmd_pc>>' # <<cmd, cmd_pc>>) =>
              /\ (cmd'.busy = "busy") <=> (calibrate.state < 3)
              /\ (cmd'.busy = "ready") <=> (calibrate.state = 3)
              /\ (cmd_pc' = "hc_restore") <=> (calibrate.state = 3)]_vars

\* C6 witness: a callback has run in Done (it made no set_pwm call).
C6_Witness ==
    /\ control = "bump" /\ calibrate.state = 3 /\ sensor_pc = "idle"
    /\ call.n = 0 /\ cmd_pc = "hc_bg_temp"

\* C7: when HEATER_CALIBRATE's set_temp rejects the target, the algorithm that
\* was active before the command is active again before the error reaches the
\* command layer; on the successful path it is active again after bg_temp.
C7_ControlRestored ==
    /\ cmd_pc = "hc_raise" => control = cmd.initial_control
    /\ cmd_pc = "hc_calc_fopdt" => control = cmd.initial_control
    /\ cmd_pc = "idle" => control # "bump"

\* C7 witness: the error path is about to surface the error, after a sample
\* was handled by the session.
C7_Witness ==
    /\ cmd_pc = "hc_raise" /\ set_temp_out_of_range(cmd.arg)
    /\ control = "bangbang" /\ lag > 0

\* C8: with a non-zero last_pwm_value, a set_pwm call at read_time <
\* next_pwm_time whose effective value is within 0.05 of last_pwm_value writes
\* nothing and leaves last_pwm_value and next_pwm_time as they are.
C8_DebounceInWindow ==
    [][(/\ CallbackStep /\ call'.n = 1
        /\ last_pwm_value # 0
        /\ last_temp_time < next_pwm_time
        /\ Abs(Effective - last_pwm_value) < PWM_DEBOUNCE) =>
           /\ ~call'.wrote
           /\ UNCHANGED <<mcu_pwm, last_pwm_value, next_pwm_time>>]_vars

\* C8 witness: a call asking for a value that differs from the baseline by
\* less than 0.05 was suppressed inside the window.
C8_Witness ==
    /\ sensor_pc = "idle" /\ call.n = 1 /\ ~call.wrote
    /\ last_pwm_value # 0 /\ target_temp > 0
    /\ call.value # last_pwm_value
    /\ last_temp_time < next_pwm_time

\* C9 as stated: set_pwm is a no-op exactly when the effective value is within
\* 0.05 of last_pwm_value and read_time < next_pwm_time or no driver write was
\* ever issued.
C9_Original ==
    [][(CallbackStep /\ call'.n = 1) =>
           (~call'.wrote <=>
               /\ Abs(Effective - last_pwm_value) < PWM_DEBOUNCE
               /\ (last_temp_time < next_pwm_time \/ ~mcu_pwm.written))]_vars

\* C9 amended: set_pwm is a no-op exactly when the effective value is within
\* 0.05 of last_pwm_value and read_time < next_pwm_time or last_pwm_value is 0
\* (which also holds after a write of 0); in every other case it writes.
C9_NoOpExactly ==
    [][(CallbackStep /\ call'.n = 1) =>
           /\ ~call'.wrote <=>
                  /\ Abs(Effective - last_pwm_value) < PWM_DEBOUNCE
                  /\ (last_temp_time < next_pwm_time \/ last_pwm_value = 0)
           /\ call'.wrote =>
                  /\ mcu_pwm' = [written |-> TRUE, time |-> last_temp_time + pwm_delay,
                                 value |-> Effective]
                  /\ last_pwm_value' = Effective]_vars

\* C9 witness: a heater switched off by an earlier write stays unwritten by a
\* call at read_time >= next_pwm_time.
C9_Witness ==
    /\ sensor_pc = "idle" /\ call.n = 1 /\ ~call.wrote
    /\ mcu_pwm.written /\ last_pwm_value = 0
    /\ last_temp_time >= next_pwm_time

\* C10: ControlBangBang switches on only at temp <= target - max_delta, off
\* only at temp >= target + max_delta, keeps the flag inside the band, and asks
\* set_pwm for 0 or max_power only.
C10_Hysteresis ==
    [][(CallbackStep /\ control = "bangbang") =>
           /\ (~bangbang.heating /\ bangbang'.heating) =>
                  last_temp <= target_temp - max_delta
           /\ (bangbang.heating /\ ~bangbang'.heating) =>
                  last_temp >= target_temp + max_delta
           /\ (target_temp - max_delta < last_temp /\ last_temp < target_temp + max_delta)
                  => bangbang'.heating = bangbang.heating
           /\ call'.n = 1
           /\ call'.value = (IF bangbang'.heating THEN max_power ELSE 0)]_vars

\* C10 witness: the flag has stayed on through a sample strictly inside the band.
C10_Witness ==
    /\ control = "bangbang" /\ sensor_pc = "idle" /\ call.n = 1
    /\ bangbang.heating /\ call.value = max_power
    /\ target_temp - max_delta < last_temp /\ last_temp < target_temp + max_delta

\* the unclamped output of the ControlPID callback that runs in this step
\* (heater.py:177), written out from the object's fields
C11_co ==
    LET time_diff == last_temp_time - pid.prev_temp_time
        temp_err == target_temp - last_temp
        integ == Max(0, Min(temp_integ_max, pid.prev_temp_integ + temp_err * time_diff))
    IN (pid_Kp * temp_err) \div TempScale
       + (pid_Ki * integ) \div (TempScale * TicksPerSec)
       - (pid_Kd * pid_temp_deriv(last_temp_time, last_temp) * TicksPerSec)
             \div TempScale

\* C11: a ControlPID callback whose unclamped output co is above max_power or
\* below 0 leaves prev_temp_integ as it was; a callback whose co lies in
\* 0 .. max_power stores the accumulated integral clamped to
\* 0 .. temp_integ_max.  No other step changes prev_temp_integ.
C11_AntiWindup ==
    [][/\ (CallbackStep /\ control = "pid") =>
              IF C11_co > max_power \/ C11_co < 0
              THEN pid'.prev_temp_integ = pid.prev_temp_integ
              ELSE pid'.prev_temp_integ =
                       Max(0, Min(temp_integ_max,
                                  pid.prev_temp_integ
                                  + (target_temp - last_temp)
                                    * (last_temp_time - pid.prev_temp_time)))
       /\ ~(CallbackStep /\ control = "pid") =>
              pid'.prev_temp_integ = pid.prev_temp_integ]_vars

\* C11 witness: after an unsaturated sample stored a positive integral, a
\* saturated sample with a positive error has left it as it was (the callback
\* asked for max_power and the integral is still below its clamp).
C11_Witness ==
    /\ control = "pid" /\ sensor_pc = "idle" /\ call.n = 1
    /\ call.value = max_power /\ nsamples >= 2
    /\ pid.prev_temp = last_temp /\ pid.prev_temp_time = last_temp_time
    /\ target_temp - last_temp > Deg(100)
    /\ pid.prev_temp_integ > 0 /\ pid.prev_temp_integ < temp_integ_max

C13_OneYieldPerEvaluation ==
    (cmd_pc = "hc_fit" /\ fit.evals > 0) => fit.pauses = 1

\* C14: a driver write made by Heater.set_pwm while target_temp <= 0 carries
\* the value 0, whatever the algorithm asked for and whatever last_pwm_value
\* and next_pwm_time were.
C14_WriteZeroWithoutTarget ==
    [][(CallbackStep /\ call'.n = 1 /\ call'.wrote /\ target_temp <= 0) =>
           /\ mcu_pwm'.written /\ mcu_pwm'.value = 0
           /\ mcu_pwm'.time = last_temp_time + pwm_delay
           /\ last_pwm_value' = 0]_vars

\* C14 witness: ControlPID asked for a positive power under target 0 and the
\* driver was written with 0.
C14_Witness ==
    /\ control = "pid" /\ sensor_pc = "idle" /\ call.n = 1 /\ call.wrote
    /\ call.value > 0 /\ target_temp = 0
    /\ mcu_pwm.time = last_temp_time + pwm_delay /\ mcu_pwm.value = 0
    /\ pid.prev_temp_time = last_temp_time

\* C15: in Idle every callback asks for power 0, and the session leaves Idle
\* exactly on the callback that records the 20th sample: the state is 0 while
\* fewer than 20 samples are recorded and at least 1 from the 20th on, and the
\* callback that recorded the 20th asked for 0 and left the state at 1,
\* whatever the samples were.
C15_IdleTwentySamples ==
    /\ calibrate.state = 0 <=> calibrate.temp_samples.len < 20
    /\ (control = "bump" /\ calibrate.temp_samples.len \in 1 .. 20) =>
           /\ call.n = 1 /\ call.value = 0
           /\ calibrate.state = (IF calibrate.temp_samples.len = 20 THEN 1 ELSE 0)

\* C15 witness: the 20th sample has just been recorded, the samples were not
\* all alike, and the session is in RampUp with the heater still off (the
\* 20th sample, though not below the target, did not take it past RampUp).
C15_Witness ==
    /\ control = "bump" /\ sensor_pc = "idle"
    /\ calibrate.temp_samples.len = 20 /\ calibrate.state = 1
    /\ calibrate.temp_samples.first[2] # calibrate.temp_samples.last[2]
    /\ calibrate.temp_samples.last[2] >= target_temp
    /\ call.value = 0 /\ Len(calibrate.pwm_samples) = 0

\* C16: on the RampUp -> Cooling transition done_temperature is
\* start_temp + 0.35 * (target - start_temp) with start_temp the temperature
\* of the sample on which the session entered RampUp, and heater.target_temp
\* is overwritten with done_temperature in the same callback.  Stated for the
\* sessions that leave RampUp on the callback after the one that entered it:
\* there the sample of RampUp entry is the 20th, the latest one recorded.
C16_DoneFromRampUpEntry ==
    [][(CallbackStep /\ control = "bump"
            /\ calibrate.state = 1 /\ calibrate'.state = 2
            /\ calibrate.temp_samples.len = 20) =>
           LET start_temp == calibrate.temp_samples.last[2] IN
           /\ calibrate'.done_temperature =
                  start_temp + ((target_temp - start_temp) * 7) \div 20
           /\ target_temp' = calibrate'.done_temperature]_vars

\* C17: during a session pwm_samples records the changes of the power the
\* heater is actually commanded to, and nothing else: a session callback at
\* time t that changes the commanded power appends exactly (t + pwm_delay,
\* new power), one that leaves it as it was appends nothing; and every
\* callback appends exactly its (time, temperature) to temp_samples.
C17_PwmSamplesActual ==
    [][(CallbackStep /\ control = "bump") =>
           /\ calibrate'.temp_samples.len = calibrate.temp_samples.len + 1
           /\ calibrate'.temp_samples.last = <<last_temp_time, last_temp>>
           /\ calibrate'.pwm_samples =
                  IF last_pwm_value' # last_pwm_value
                  THEN Append(calibrate.pwm_samples,
                              <<last_temp_time + pwm_delay, last_pwm_value'>>)
                  ELSE calibrate.pwm_samples]_vars

\* C18: Heater.lock is held only inside a with-block and released on every
\* way out of it, a callback that raises included: the sensor thread holds it
\* exactly while it is inside temperature_callback, the command thread only
\* between the two statements of set_control (its next statement releases
\* the lock, none takes it again), and after a callback that raised the lock
\* is not left with the sensor thread, so the next set_temp, set_control or
\* temperature_callback can take it.
C18_LockReleased ==
    /\ lock \in {"free", "sensor", "cmd"}
    /\ lock = "sensor" <=> sensor_pc = "locked"
    /\ lock = "cmd" => (cmd_pc \in SetControlSites /\ control = set_control_arg)
    /\ cmd_pc \in {"idle", "hc_set_temp", "hc_bg_temp", "hc_raise", "hc_calc_fopdt",
                    "hc_fit", "lse_pause"} => lock # "cmd"
    /\ (call.raised /\ sensor_pc = "idle") => lock # "sensor"

\* C18 witness: after a callback that raised, set_control has taken the lock.
C18_Witness ==
    /\ call.raised /\ ~call.wrote /\ sensor_pc = "idle"
    /\ lock = "cmd" /\ control = "bump"
    /\ last_pwm_value # mcu_pwm.value

\* C19: every driver write sets next_pwm_time to read_time + pwm_delay +
\* 0.75 * MAX_HEAT_TIME; with a non-zero last_pwm_value a set_pwm call at
\* read_time >= next_pwm_time writes even an unchanged value; and with samples
\* of period p, p + pwm_delay <= 0.25 * MAX_HEAT_TIME, each followed by a
\* set_pwm call, a driver write that follows a write of a non-zero power is
\* scheduled at most MAX_HEAT_TIME (20 ticks = 5.0 s) after it.
C19_RefreshWithinMaxHeatTime ==
    [][(CallbackStep /\ call'.n = 1) =>
           /\ call'.wrote =>
                  4 * next_pwm_time' = 4 * (last_temp_time + pwm_delay) + 3 * 20
           /\ (last_pwm_value # 0 /\ last_temp_time >= next_pwm_time) => call'.wrote
           /\ (/\ call'.wrote /\ mcu_pwm.written /\ mcu_pwm.value # 0
               /\ 4 * (pwm_delay + pwm_delay) <= 20) =>
                  mcu_pwm'.time - mcu_pwm.time <= 20]_vars

\* C19 witness: with a fast sensor (two report periods are 1 s, less than
\* 1.25 s) a heater that stays on at max_power has been written again with the
\* same value, at the first sample not before next_pwm_time.
C19_Witness ==
    /\ 4 * (pwm_delay + pwm_delay) <= 20
    /\ sensor_pc = "idle" /\ call.n = 1 /\ call.wrote
    /\ call.value = max_power /\ mcu_pwm.value = max_power
    /\ mcu_pwm.time = last_temp_time + pwm_delay
    /\ control = "bangbang" /\ bangbang.heating
    /\ last_temp_time >= 10 * pwm_delay

\* the output of heater.py:306-309 from the fields the ControlFOPDT callback
\* of this step leaves behind, did_fault not among them
C20_co ==
    LET target == target_temp - fopdt'.smooth_ambient
        bias == (target * PwmScale) \div fopdt_gain
        temp_err == target - fopdt'.last_model_temp
    IN Max(0, Min(max_power,
                  bias + (7 * time_constant * temp_err * PwmScale)
                             \div (10 * TicksPerSec * fopdt_gain)))

\* C20: did_fault of a ControlFOPDT object never goes back to False, the
\* "not heating at expected rate" error is logged at most once (when the flag
\* is raised), and the callback that raises the fault leaves target_temp as it
\* is and asks for the power the control law gives, as every other callback.
C20_SoftFault ==
    [][/\ fopdt.did_fault => fopdt'.did_fault
       /\ fopdt'.logged = (IF fopdt'.did_fault THEN 1 ELSE 0)
       /\ (CallbackStep /\ control = "fopdt") =>
              /\ target_temp' = target_temp
              /\ call'.n = 1 /\ call'.value = C20_co]_vars

\* C20 witness: the fault is raised, and the callback that last ran, with the
\* ambient estimate below MIN_AMBIENT and the temperature short of the
\* target, asked for a positive power.
C20_Witness ==
    /\ control = "fopdt" /\ sensor_pc = "idle" /\ call.n = 1
    /\ fopdt.did_fault /\ fopdt.logged = 1
    /\ fopdt.last_model_time = last_temp_time
    /\ fopdt.smooth_ambient < 0 /\ last_temp <= target_temp
    /\ call.value > 0 /\ call.wrote /\ mcu_pwm.value > 0

\* the sensor can deliver k more samples to the active algorithm
SensorDelivers(k) ==
    /\ last_temp_time + k * pwm_delay <= MaxReports * pwm_delay
    /\ control \in {"pid", "fopdt"} => nsamples + k <= MaxLiveSamples

\* the active algorithm calls set_pwm on every callback (ControlBumpTest in
\* Done does not, heater_calibrate.py:81-84)
CallsSetPwm == ~(control = "bump" /\ calibrate.state = 3)

\* C21: once target_temp is <= 0 (after set_temp(0) or set_control) and the
\* sensor goes on delivering samples, with read_time advancing by the report
\* period, to an algorithm that calls set_pwm on every callback, then
\* eventually the cached power last_pwm_value and the driver's power are 0,
\* unless the target is raised again first, also when the cached power was
\* non-zero but below 0.05; and while target_temp <= 0 a cached power of 0
\* stays 0.  Three more samples are enough: the write that cached the power
\* was at most MAX_HEAT_TIME * 0.75 + pwm_delay before next_pwm_time.
C21_EventuallyOff ==
    /\ (target_temp <= 0 /\ CallsSetPwm /\ SensorDelivers(3))
           ~> ((last_pwm_value = 0 /\ mcu_pwm.value = 0) \/ target_temp > 0)
    /\ [][(target_temp <= 0 /\ last_pwm_value = 0) => last_pwm_value' = 0]_vars

\* C21 witness: under target 0 the driver was written with 0 by the latest
\* callback of a ControlFOPDT whose model still runs on the power that was
\* cached until then, one below 0.05.
C21_Witness ==
    /\ control = "fopdt"
    /\ target_temp <= 0
    /\ sensor_pc = "idle"
    /\ call.wrote
    /\ mcu_pwm.time = last_temp_time + pwm_delay
    /\ mcu_pwm.value = 0
    /\ last_pwm_value = 0
    /\ fopdt.next_pwm = 0
    /\ fopdt.last_pwm \in 1..(PWM_DEBOUNCE - 1)

\* C22: whenever the bump test is in Done, pwm_samples holds exactly two
\* entries, a power-on edge with value max_power followed by a later power-off
\* edge with value 0, so that the reads of pwm_samples[0] and pwm_samples[1]
\* in calc_fopdt and model_smoothed_fopdt are defined.  (Violated: a RampUp
\* entered at or above the target never switches the heater on.)
C22_TwoEdgesAtDone ==
    calibrate.state = 3 =>
        /\ Len(calibrate.pwm_samples) = 2
        /\ calibrate.pwm_samples[1][2] = max_power
        /\ calibrate.pwm_samples[2][2] = 0
        /\ calibrate.pwm_samples[1][1] < calibrate.pwm_samples[2][1]

\* C23: when cmd_HEATER_CALIBRATE has finished, by its report
\* (heater_calibrate.py:39), by the error of a rejected target (line 33) or by
\* an exception of calc_fopdt, and no other command has run since,
\* heater.target_temp is 0, whatever the target was before the command:
\* set_control(old_control) brings the algorithm back, not its target.
C23_TargetZeroAfterCalibrate ==
    (cmd_pc = "idle" /\ cmd_result.op = "calibrate") => target_temp = 0

\* C23 witness: a calibration that ran to its report has ended, and the
\* restored ControlBangBang is still in its heating state: it was heating
\* toward a positive target when the command replaced it.
C23_Witness ==
    /\ cmd_pc = "idle"
    /\ cmd_result.op = "calibrate"
    /\ ~cmd_result.raised
    /\ control = "bangbang"
    /\ bangbang.heating
    /\ target_temp = 0

====
